---- MODULE Spec2Model ----
(***************************************************************************)
(* Model of api/index.py: the start-up load of the telemetry snapshot and  *)
(* the POST handler get_latency_metrics, which aggregates the snapshot by  *)
(* region (mean latency, 95th percentile, mean uptime, threshold breaches).*)
(*                                                                         *)
(* Numbers: latencies, uptimes and thresholds are integers.  A float       *)
(* result (np.mean, np.percentile) is kept as the exact rational it        *)
(* denotes, in lowest terms: [num |-> n, den |-> d] with d > 0; the        *)
(* not-a-number result of a mean over nothing is [num |-> 0, den |-> 0].   *)
(* A Python dict is the sequence of its entries in insertion order.        *)
(***************************************************************************)
EXTENDS Integers, Sequences, FiniteSets, TLC

VARIABLES status, load_outcome, telemetry_data, pc, request, idx, response_data

vars == <<status, load_outcome, telemetry_data, pc, request, idx, response_data>>

(* ------------------------------ bounds --------------------------------- *)
MaxRecords == 3
MaxRegions == 2
MaxRecordsConc == 2
MaxRegionsConc == 3

SnapshotRegions == {"amer", "apac"}
RequestRegions == {"amer", "apac", "Amer"}
Latencies == {100, 200}
Uptimes == {98, 99}
Thresholds == {100, 150}
LatenciesConc == {200}
UptimesConc == {99}
RequestRegionsConc == {"amer", "apac"}
ThresholdsConc == {100}

Procs == {"req1"}
ProcsConc == {"req1", "req2"}

SeqsUpTo(S, n) == UNION {[1..k -> S] : k \in 0..n}

Records == [region : SnapshotRegions, latency_ms : Latencies, uptime_pct : Uptimes]
RecordsConc == [region : SnapshotRegions, latency_ms : LatenciesConc, uptime_pct : UptimesConc]
Snapshots == SeqsUpTo(Records, MaxRecords)
SnapshotsConc == SeqsUpTo(RecordsConc, MaxRecordsConc)
Requests == [regions : SeqsUpTo(RequestRegions, MaxRegions), threshold_ms : Thresholds]
RequestsConc == [regions : SeqsUpTo(RequestRegionsConc, MaxRegionsConc), threshold_ms : ThresholdsConc]

LoadFailures == {"FileNotFoundError", "PermissionError", "JSONDecodeError"}

(* --------------------------- numeric helpers --------------------------- *)
RECURSIVE GCD(_, _)
GCD(a, b) == IF b = 0 THEN a ELSE GCD(b, a % b)

Abs(x) == IF x < 0 THEN 0 - x ELSE x

\* the float denoted by n/d, as a rational in lowest terms (d > 0)
Rat(n, d) == LET g == GCD(Abs(n), d) IN [num |-> n \div g, den |-> d \div g]

NaN == [num |-> 0, den |-> 0]

RECURSIVE Sum(_)
Sum(xs) == IF xs = <<>> THEN 0 ELSE Head(xs) + Sum(Tail(xs))

MeanFloorDiv(xs) == IF xs = <<>> THEN NaN ELSE Rat(Sum(xs) \div Len(xs), 1)

\* np.mean: the sum divided by the count; nan for no elements
Mean(xs) == IF xs = <<>> THEN NaN ELSE Rat(Sum(xs), Len(xs))

RECURSIVE Insert(_, _)
Insert(x, s) ==
  IF s = <<>> THEN <<x>>
  ELSE IF x <= Head(s) THEN <<x>> \o s
  ELSE <<Head(s)>> \o Insert(x, Tail(s))

RECURSIVE Sort(_)
Sort(xs) == IF xs = <<>> THEN <<>> ELSE Insert(Head(xs), Sort(Tail(xs)))

\* nearest-rank percentile: sorted[ceil(0.95 n) - 1], no interpolation
Percentile95NearestRank(latencies) ==
  LET n == Len(latencies)
      arr == Sort(latencies)
  IN IF n = 0 THEN NaN ELSE Rat(arr[(19 * n + 19) \div 20], 1)

\* np.percentile(latencies, 95), default method "linear": the virtual index
\* (n-1) * 0.95 is kept in twentieths; previous/next indexes are its floor
\* and floor + 1, both the last index when the virtual index reaches n-1;
\* the result is a + (b - a) * gamma
Percentile95(latencies) ==
  LET n == Len(latencies)
      arr == Sort(latencies)
      virtual20 == 19 * (n - 1)
      previous == virtual20 \div 20
      gamma20 == virtual20 - 20 * previous
      above == virtual20 >= 20 * (n - 1)
      previous_index == IF above THEN n - 1 ELSE previous
      next_index == IF above THEN n - 1 ELSE previous + 1
      a == arr[previous_index + 1]
      b == arr[next_index + 1]
  IN IF n = 0 THEN NaN ELSE Rat(20 * a + (b - a) * gamma20, 20)

BreachesInclusive(latencies, threshold_ms) ==
  Cardinality({i \in 1..Len(latencies) : latencies[i] >= threshold_ms})

\* sum(1 for lat in latencies if lat > request.threshold_ms)
Breaches(latencies, threshold_ms) ==
  Cardinality({i \in 1..Len(latencies) : latencies[i] > threshold_ms})

(* ------------------------------ the dict ------------------------------- *)
Entry(k, v) == [key |-> k, value |-> v]

HasKey(d, k) == \E i \in 1..Len(d) : d[i].key = k

DictSetAppend(d, k, v) == Append(d, Entry(k, v))

DictSetMoveToEnd(d, k, v) ==
  Append(SelectSeq(d, LAMBDA e : e.key # k), Entry(k, v))

\* d[k] = v: a key already present keeps its position and gets the new
\* value, a new key goes to the end
DictSet(d, k, v) ==
  IF HasKey(d, k)
  THEN [i \in 1..Len(d) |-> IF d[i].key = k THEN Entry(k, v) ELSE d[i]]
  ELSE Append(d, Entry(k, v))

ErrorPayload == <<Entry("error", "Telemetry data file not found or is empty.")>>

(* ----------------------------- the handler ----------------------------- *)
Lower(s) == IF s = "Amer" THEN "amer" ELSE s

RegionMatchesIgnoreCase(record, region) == Lower(record.region) = Lower(region)

\* record.get('region') == region
RegionMatches(record, region) == record.region = region

RegionData(td, region) == SelectSeq(td, LAMBDA record : RegionMatches(record, region))

LatenciesOf(region_data) == [i \in 1..Len(region_data) |-> region_data[i].latency_ms]

UptimesOf(region_data) == [i \in 1..Len(region_data) |-> region_data[i].uptime_pct]

RegionMetrics(region_data, threshold_ms) ==
  [avg_latency |-> Mean(LatenciesOf(region_data)),
   p95_latency |-> Percentile95(LatenciesOf(region_data)),
   avg_uptime |-> Mean(UptimesOf(region_data)),
   breaches |-> Breaches(LatenciesOf(region_data), threshold_ms)]

IsEmptySnapshotNever(td) == FALSE

IsEmptySnapshotInverted(td) == Len(td) # 0

\* not telemetry_data
IsEmptySnapshot(td) == Len(td) = 0

\* one iteration of the for loop on a dict d
LoopBody(d, td, region, threshold_ms) ==
  LET region_data == RegionData(td, region)
  IN IF Len(region_data) = 0 THEN d
     ELSE DictSet(d, region, RegionMetrics(region_data, threshold_ms))

RECURSIVE ForLoop(_, _, _, _)
ForLoop(d, td, regions, threshold_ms) ==
  IF regions = <<>> THEN d
  ELSE ForLoop(LoopBody(d, td, Head(regions), threshold_ms), td, Tail(regions), threshold_ms)

\* the whole handler, run without interruption
get_latency_metrics(td, req) ==
  IF IsEmptySnapshot(td) THEN ErrorPayload
  ELSE ForLoop(<<>>, td, req.regions, req.threshold_ms)

NoRequest == [regions |-> <<>>, threshold_ms |-> 0]

(* ------------------------------- start-up ------------------------------ *)
InitFor(P) ==
  /\ status = "starting"
  /\ load_outcome = "pending"
  /\ telemetry_data = <<>>
  /\ pc = [p \in P |-> "idle"]
  /\ request = [p \in P |-> NoRequest]
  /\ idx = [p \in P |-> 0]
  /\ response_data = [p \in P |-> <<>>]

LoadOk(S) ==
  /\ status = "starting"
  /\ \E data \in S : telemetry_data' = data
  /\ load_outcome' = "ok"
  /\ status' = "running"
  /\ UNCHANGED <<pc, request, idx, response_data>>

LoadFileNotFound ==
  /\ status = "starting"
  /\ load_outcome' = "FileNotFoundError"
  /\ telemetry_data' = <<>>
  /\ status' = "running"
  /\ UNCHANGED <<pc, request, idx, response_data>>

LoadRaises ==
  /\ status = "starting"
  /\ \E e \in LoadFailures \ {"FileNotFoundError"} : load_outcome' = e
  /\ status' = "crashed"
  /\ UNCHANGED <<telemetry_data, pc, request, idx, response_data>>

(* ---------------------- requests served one at a time ------------------ *)
Post(p, req) ==
  /\ status = "running"
  /\ pc[p] = "idle"
  /\ request' = [request EXCEPT ![p] = req]
  /\ response_data' = [response_data EXCEPT ![p] = get_latency_metrics(telemetry_data, req)]
  /\ pc' = [pc EXCEPT ![p] = "done"]
  /\ UNCHANGED <<status, load_outcome, telemetry_data, idx>>

Respond(p) ==
  /\ pc[p] = "done"
  /\ pc' = [pc EXCEPT ![p] = "idle"]
  /\ request' = [request EXCEPT ![p] = NoRequest]
  /\ idx' = [idx EXCEPT ![p] = 0]
  /\ response_data' = [response_data EXCEPT ![p] = <<>>]
  /\ UNCHANGED <<status, load_outcome, telemetry_data>>

Init == InitFor(Procs)

Next ==
  \/ LoadOk(Snapshots)
  \/ LoadFileNotFound
  \/ LoadRaises
  \/ \E p \in Procs : \E req \in Requests : Post(p, req)
  \/ \E p \in Procs : Respond(p)

Spec == Init /\ [][Next]_vars

(* ------------------- requests served concurrently ---------------------- *)
(* A def endpoint runs in a worker thread: several invocations are in      *)
(* flight at once, each with its own response_data, loop position and      *)
(* request, all reading the one module-level telemetry_data.               *)

StoreEntryShared(rd, p, region, metrics) ==
  [q \in DOMAIN rd |-> DictSet(rd[q], region, metrics)]

\* response_data[region] = {...}, response_data being a local of invocation p
StoreEntry(rd, p, region, metrics) ==
  [rd EXCEPT ![p] = DictSet(@, region, metrics)]

\* the call is dispatched; response_data = {}
Call(p, req) ==
  /\ status = "running"
  /\ pc[p] = "idle"
  /\ request' = [request EXCEPT ![p] = req]
  /\ response_data' = [response_data EXCEPT ![p] = <<>>]
  /\ idx' = [idx EXCEPT ![p] = 0]
  /\ pc' = [pc EXCEPT ![p] = "check"]
  /\ UNCHANGED <<status, load_outcome, telemetry_data>>

\* if not telemetry_data: return {"error": ...}
ReturnError(p) ==
  /\ pc[p] = "check"
  /\ IsEmptySnapshot(telemetry_data)
  /\ response_data' = [response_data EXCEPT ![p] = ErrorPayload]
  /\ pc' = [pc EXCEPT ![p] = "done"]
  /\ UNCHANGED <<status, load_outcome, telemetry_data, request, idx>>

EnterLoop(p) ==
  /\ pc[p] = "check"
  /\ ~IsEmptySnapshot(telemetry_data)
  /\ pc' = [pc EXCEPT ![p] = "loop"]
  /\ UNCHANGED <<status, load_outcome, telemetry_data, request, idx, response_data>>

\* an iteration whose region has no record: continue
IterateSkip(p) ==
  /\ pc[p] = "loop"
  /\ idx[p] < Len(request[p].regions)
  /\ Len(RegionData(telemetry_data, request[p].regions[idx[p] + 1])) = 0
  /\ idx' = [idx EXCEPT ![p] = @ + 1]
  /\ UNCHANGED <<status, load_outcome, telemetry_data, pc, request, response_data>>

\* an iteration whose region has records: compute and store its metrics
IterateStore(p) ==
  /\ pc[p] = "loop"
  /\ idx[p] < Len(request[p].regions)
  /\ LET region == request[p].regions[idx[p] + 1]
         region_data == RegionData(telemetry_data, region)
     IN /\ Len(region_data) # 0
        /\ response_data' = StoreEntry(response_data, p, region,
                                RegionMetrics(region_data, request[p].threshold_ms))
  /\ idx' = [idx EXCEPT ![p] = @ + 1]
  /\ UNCHANGED <<status, load_outcome, telemetry_data, pc, request>>

\* the loop is exhausted: return response_data
ReturnData(p) ==
  /\ pc[p] = "loop"
  /\ idx[p] = Len(request[p].regions)
  /\ pc' = [pc EXCEPT ![p] = "done"]
  /\ UNCHANGED <<status, load_outcome, telemetry_data, request, idx, response_data>>

InitConc == InitFor(ProcsConc)

NextConc ==
  \/ LoadOk(SnapshotsConc)
  \/ LoadFileNotFound
  \/ LoadRaises
  \/ \E p \in ProcsConc : \E req \in RequestsConc : Call(p, req)
  \/ \E p \in ProcsConc : ReturnError(p)
  \/ \E p \in ProcsConc : EnterLoop(p)
  \/ \E p \in ProcsConc : IterateSkip(p)
  \/ \E p \in ProcsConc : IterateStore(p)
  \/ \E p \in ProcsConc : ReturnData(p)
  \/ \E p \in ProcsConc : Respond(p)

SpecConc == InitConc /\ [][NextConc]_vars

(* ======================= properties of the handler ===================== *)
(* Reference notions, stated over the snapshot itself.                     *)

\* positions of the snapshot records of region r
Matching(td, r) == {j \in 1..Len(td) : td[j].region = r}

RECURSIVE SumOver(_, _, _)
SumOver(td, J, field) ==
  IF J = {} THEN 0
  ELSE LET j == CHOOSE k \in J : TRUE
       IN td[j][field] + SumOver(td, J \ {j}, field)

\* the k-th smallest (k from 0) latency among the records at positions J
OrderStat(td, J, k) ==
  CHOOSE v \in {td[j].latency_ms : j \in J} :
    /\ Cardinality({j \in J : td[j].latency_ms < v}) <= k
    /\ Cardinality({j \in J : td[j].latency_ms <= v}) > k

Keys(d) == [i \in 1..Len(d) |-> d[i].key]

KeySet(d) == {d[i].key : i \in 1..Len(d)}

Lookup(d, k) == d[CHOOSE i \in 1..Len(d) : d[i].key = k].value

Range(f) == {f[i] : i \in DOMAIN f}

\* the regions list without repeated regions, first occurrences kept
FirstOccurrences(regions) ==
  LET keep == {i \in 1..Len(regions) : \A j \in 1..(i - 1) : regions[j] # regions[i]}
      pos[k \in 0..Len(regions)] ==
        IF k = 0 THEN <<>>
        ELSE IF k \in keep THEN Append(pos[k - 1], regions[k]) ELSE pos[k - 1]
  IN pos[Len(regions)]

HasDuplicate(regions) == \E i, j \in 1..Len(regions) : i < j /\ regions[i] = regions[j]

\* request p has returned a per-region map computed over a non-empty snapshot
Reported(p) == pc[p] = "done" /\ telemetry_data # <<>>

\* C1: for a non-empty snapshot, every requested region with at least one
\* matching record is reported with breaches equal to the number of its
\* snapshot records whose latency is strictly greater than the threshold.
C1_BreachesStrict ==
  \A p \in DOMAIN pc : Reported(p) =>
    \A r \in Range(request[p].regions) : Matching(telemetry_data, r) # {} =>
      /\ HasKey(response_data[p], r)
      /\ Lookup(response_data[p], r).breaches =
           Cardinality({j \in Matching(telemetry_data, r) :
                          telemetry_data[j].latency_ms > request[p].threshold_ms})

C1_Witness ==
  \E p \in DOMAIN pc : Reported(p) /\
    \E r \in Range(request[p].regions) : \E j, k \in Matching(telemetry_data, r) :
      /\ telemetry_data[j].latency_ms = request[p].threshold_ms
      /\ telemetry_data[k].latency_ms > request[p].threshold_ms

\* C2: for a non-empty snapshot, the keys of the returned map are exactly the
\* requested regions that have a snapshot record with an equal region string;
\* a region without records gets no key and the others are still reported.
C2_KeySet ==
  \A p \in DOMAIN pc : Reported(p) =>
    KeySet(response_data[p]) =
      {r \in Range(request[p].regions) : Matching(telemetry_data, r) # {}}

C2_Witness ==
  \E p \in DOMAIN pc : Reported(p) /\
    /\ "Amer" \in Range(request[p].regions)
    /\ "amer" \notin Range(request[p].regions)
    /\ Matching(telemetry_data, "amer") # {}
    /\ \E r \in Range(request[p].regions) : Matching(telemetry_data, r) # {}

C4_EmptySnapshotError ==
  \A p \in DOMAIN pc : (pc[p] = "done" /\ telemetry_data = <<>>) =>
    /\ response_data[p] = ErrorPayload
    /\ idx[p] = 0

C4_Witness ==
  \E p \in DOMAIN pc :
    /\ pc[p] = "done"
    /\ telemetry_data = <<>>
    /\ request[p].regions # <<>>

\* C5 (as stated): for every snapshot, empty or not, a request with an empty
\* regions list returns an empty map.
C5_EmptyRegionsAlwaysEmptyMap ==
  \A p \in DOMAIN pc : (pc[p] = "done" /\ request[p].regions = <<>>) =>
    response_data[p] = <<>>

\* C5 (amended): a request with an empty regions list returns an empty map
\* when the snapshot is non-empty, and the error payload when it is empty.
C5_EmptyRegions ==
  \A p \in DOMAIN pc : (pc[p] = "done" /\ request[p].regions = <<>>) =>
    /\ telemetry_data # <<>> => response_data[p] = <<>>
    /\ telemetry_data = <<>> => response_data[p] = ErrorPayload

C5_Witness ==
  \E p \in DOMAIN pc : Reported(p) /\ request[p].regions = <<>>

\* C6: p95_latency of a reported region is the linear interpolation between
\* the closest ranks of its sorted latencies at index 0.95 (n - 1): 20 times
\* it is 20 s[i] + f (s[i+1] - s[i]) with 19 (n - 1) = 20 i + f; for n = 1 it
\* is the record's latency, and for latencies 100 and 200 it is 195.
C6_Percentile ==
  \A p \in DOMAIN pc : Reported(p) =>
    \A e \in Range(response_data[p]) :
      LET J == Matching(telemetry_data, e.key)
          n == Cardinality(J)
          i == (19 * (n - 1)) \div 20
          f == 19 * (n - 1) - 20 * i
          lo == OrderStat(telemetry_data, J, i)
          hi == IF f = 0 THEN lo ELSE OrderStat(telemetry_data, J, i + 1)
          p95 == e.value.p95_latency
      IN /\ p95.den > 0
         /\ 20 * p95.num = p95.den * (20 * lo + f * (hi - lo))
         /\ n = 1 => \A j \in J : p95 = [num |-> telemetry_data[j].latency_ms, den |-> 1]
         /\ (n = 2 /\ {telemetry_data[j].latency_ms : j \in J} = {100, 200})
              => p95 = [num |-> 195, den |-> 1]

C6_Witness ==
  \E p \in DOMAIN pc : Reported(p) /\
    \E e \in Range(response_data[p]) :
      LET J == Matching(telemetry_data, e.key)
      IN /\ Cardinality(J) = 3
         /\ \E j, k \in J : j < k /\ telemetry_data[j].latency_ms > telemetry_data[k].latency_ms
         /\ e.value.p95_latency = [num |-> 190, den |-> 1]

\* C7: avg_latency times n is the sum of latency_ms over exactly the snapshot
\* records of the reported region (n >= 1 of them), likewise avg_uptime; no
\* mean is taken over an empty set.
C7_Means ==
  \A p \in DOMAIN pc : Reported(p) =>
    \A e \in Range(response_data[p]) :
      LET J == Matching(telemetry_data, e.key)
          n == Cardinality(J)
          al == e.value.avg_latency
          au == e.value.avg_uptime
      IN /\ n >= 1
         /\ al.den > 0
         /\ au.den > 0
         /\ al.num * n = al.den * SumOver(telemetry_data, J, "latency_ms")
         /\ au.num * n = au.den * SumOver(telemetry_data, J, "uptime_pct")

C7_Witness ==
  \E p \in DOMAIN pc : Reported(p) /\
    \E e \in Range(response_data[p]) :
      /\ Cardinality(Matching(telemetry_data, e.key)) = 2
      /\ Len(telemetry_data) = 3
      /\ e.value.avg_latency = [num |-> 150, den |-> 1]
      /\ e.value.avg_uptime = [num |-> 197, den |-> 2]

\* C8: whatever the interleaving of concurrent requests, telemetry_data keeps
\* the value it was loaded with, and a request that has returned holds the
\* result it produces when run alone on that snapshot.
C8_Isolation ==
  [][/\ status = "running" => telemetry_data' = telemetry_data
     /\ \A p \in DOMAIN pc : pc'[p] = "done" =>
          response_data'[p] = get_latency_metrics(telemetry_data', request'[p])]_vars

C8_Witness ==
  \E p, q \in DOMAIN pc :
    /\ pc[p] = "done"
    /\ response_data[p] # <<>>
    /\ pc[q] = "loop"
    /\ idx[q] > 0
    /\ request[q] # request[p]
    /\ response_data[q] # <<>>

\* C9: two requests with the same regions and threshold return the same
\* map, with the same keys in the same order and the same values; the keys
\* come in the order in which the reported regions first appear in the request.
C9_Deterministic ==
  /\ \A p, q \in DOMAIN pc :
       (pc[p] = "done" /\ pc[q] = "done" /\ request[p] = request[q]) =>
         response_data[p] = response_data[q]
  /\ \A p \in DOMAIN pc : Reported(p) =>
       Keys(response_data[p]) =
         SelectSeq(FirstOccurrences(request[p].regions),
                   LAMBDA r : Matching(telemetry_data, r) # {})

C9_Witness ==
  \E p, q \in DOMAIN pc :
    /\ p # q
    /\ pc[p] = "done"
    /\ pc[q] = "done"
    /\ request[p] = request[q]
    /\ HasDuplicate(request[p].regions)
    /\ Len(response_data[p]) = 2
    /\ request[p].regions[1] = request[p].regions[3]

\* C10: every failure to load the snapshot source (missing, unreadable or
\* malformed file) leaves the process running with an empty snapshot.
C10_LoadFailureDegrades ==
  load_outcome \in LoadFailures =>
    (status = "running" /\ telemetry_data = <<>>)

====
